---- MODULE Spec2Model ----
(***************************************************************************)
(* A model of MyLisp.py: the tokenizer, the recursive-descent parser, the  *)
(* chained environments, the tree-walking evaluator and the run_code       *)
(* driver.                                                                 *)
(*                                                                         *)
(* Python values are tagged records:                                       *)
(*   [int |-> n]      an int         [sym |-> s]    a str (symbol)         *)
(*   [list |-> q]     a list         [none |-> TRUE]  None                 *)
(*   [prim |-> s]     a builtin of standard_env                            *)
(*   [vars |-> e, exp |-> e, env |-> i]                                    *)
(*        the Python lambda built by (lambda vars exp) in environment i    *)
(* A text is a sequence of one-character strings; a token is a string.     *)
(* The heap H is the sequence of the Env objects created so far: H[1] is   *)
(* global_env, an Env names its outer Env by index, 0 standing for None.   *)
(*                                                                         *)
(* Left out: float literals, and the builtins of standard_env other than   *)
(* +, begin and list (no modelled program names them).                     *)
(*                                                                         *)
(* Three specifications: SpecTok runs tokenize on every text up to MaxLen  *)
(* characters, SpecParse runs parse on every token list up to MaxToks      *)
(* tokens, Spec runs run_code up to MaxRuns times on the programs below,   *)
(* the global environment persisting from one run to the next.             *)
(***************************************************************************)
EXTENDS Integers, Sequences, FiniteSets, TLC

VARIABLES
    \* tokenize(): its input, the rest of `chars`, the tokens so far, position
    src, chars, toks, tpc,
    \* parse(): its input token list and what the call produced
    ptoks, pres, ppc,
    \* run_code(): locals, the printed lines, the heap of Env objects
    code, tokens, expr, idx, line_number, out, H, pc, status,
    \* history: runs started, heap at the start of the run, forms evaluated,
    \* the parse outcome, the environment operations of the last evaluation,
    \* the invocations of the two counters
    runs, H0, evald, perr, log, hits

tokvars == <<src, chars, toks, tpc>>
parvars == <<ptoks, pres, ppc>>
runvars == <<code, tokens, expr, idx, line_number, out, H, pc, status,
             runs, H0, evald, perr, log, hits>>
vars == <<src, chars, toks, tpc, ptoks, pres, ppc,
          code, tokens, expr, idx, line_number, out, H, pc, status,
          runs, H0, evald, perr, log, hits>>

(***************************************************************************)
(* Bounds                                                                  *)
(***************************************************************************)
MaxLen == 4
MaxToks == 4
MaxLit == 12
MaxRuns == 4

(***************************************************************************)
(* Generic helpers                                                         *)
(***************************************************************************)
SeqsUpTo(S, n) == UNION {[1..k -> S] : k \in 0..n}

Drop(s, k) == SubSeq(s, k + 1, Len(s))

RECURSIVE Concat(_)
\* ''.join(parts)
Concat(parts) ==
    IF parts = <<>> THEN "" ELSE Head(parts) \o Concat(Tail(parts))

RECURSIVE Join(_)
\* ' '.join(parts)
Join(parts) ==
    IF parts = <<>> THEN ""
    ELSE IF Len(parts) = 1 THEN Head(parts)
    ELSE Head(parts) \o " " \o Join(Tail(parts))

(***************************************************************************)
(* tokenize                                                                *)
(***************************************************************************)
\* str.isspace() on the characters of the modelled alphabet
IsSpace(c) == c \in {" ", "\n", "\t", "\r"}

\* chars.find('\n'): the 1-based index of the first newline, 0 for -1
FindNewline(cs) ==
    IF \E i \in 1..Len(cs) : cs[i] = "\n"
    THEN CHOOSE i \in 1..Len(cs) :
            /\ cs[i] = "\n"
            /\ \A j \in 1..(i - 1) : cs[j] # "\n"
    ELSE 0

\* an atom run that a `;` does not end
InAtomSemi(c) == ~IsSpace(c) /\ c \notin {"(", ")"}

\* the loop condition of line 22
InAtom(c) == ~IsSpace(c) /\ c \notin {"(", ")", ";"}

\* the inner while of lines 22-24: how many characters `match` takes
AtomLen(cs) ==
    IF \A i \in 1..Len(cs) : InAtom(cs[i])
    THEN Len(cs)
    ELSE (CHOOSE i \in 1..Len(cs) :
             /\ ~InAtom(cs[i])
             /\ \A j \in 1..(i - 1) : InAtom(cs[j])) - 1

\* one iteration of the outer while of lines 9-25 (cs is not empty)
TokStep(cs, ts) ==
    IF cs[1] = ";"
    THEN IF FindNewline(cs) = 0
         THEN [chars |-> cs, toks |-> ts, stop |-> TRUE]
         ELSE [chars |-> Drop(cs, FindNewline(cs)), toks |-> ts, stop |-> FALSE]
    ELSE IF cs[1] \in {"(", ")"}
    THEN [chars |-> Tail(cs), toks |-> Append(ts, cs[1]), stop |-> FALSE]
    ELSE IF IsSpace(cs[1])
    THEN [chars |-> Tail(cs), toks |-> ts, stop |-> FALSE]
    ELSE [chars |-> Drop(cs, AtomLen(cs)),
          toks |-> Append(ts, Concat(SubSeq(cs, 1, AtomLen(cs)))),
          stop |-> FALSE]

RECURSIVE TokLoop(_, _)
TokLoop(cs, ts) ==
    IF cs = <<>> THEN ts
    ELSE LET s == TokStep(cs, ts)
         IN  IF s.stop THEN s.toks ELSE TokLoop(s.chars, s.toks)

tokenize(cs) == TokLoop(cs, <<>>)

(***************************************************************************)
(* parse                                                                   *)
(***************************************************************************)
\* the literals int(token) accepts among the tokens the model uses
IntLits == {ToString(n) : n \in 0..MaxLit}

\* atom(token): int(token), else float(token), else str(token); no modelled
\* token is a float literal
atom(token) ==
    IF token \in IntLits
    THEN [int |-> CHOOSE n \in 0..MaxLit : ToString(n) = token]
    ELSE [sym |-> token]

FirstLine == 1

EofError(line, rest) ==
    [ok |-> FALSE, kind |-> "EOF", rest |-> rest,
     msg |-> "unexpected EOF on line " \o ToString(line)]

\* a parser that reports a `)` with no open `(` as an unexpected EOF
CloseAsEof(line, rest) == EofError(line, rest)

CloseError(line, rest) ==
    [ok |-> FALSE, kind |-> "CLOSE", rest |-> rest,
     msg |-> "unexpected ) on line " \o ToString(line)]

RECURSIVE parse_rec(_, _), ParseList(_, _, _)
\* parse_rec(tokens, line_number): the value read and the tokens left
parse_rec(ts, line) ==
    IF Len(ts) = 0 THEN EofError(line, ts)
    ELSE IF Head(ts) = "(" THEN ParseList(Tail(ts), <<>>, line)
    ELSE IF Head(ts) = ")" THEN CloseError(line, Tail(ts))
    ELSE [ok |-> TRUE, val |-> atom(Head(ts)), rest |-> Tail(ts)]

\* the while of lines 36-45 with L read so far
ParseList(ts, L, line) ==
    IF ts = <<>> THEN EofError(line, ts)
    ELSE IF Head(ts) = ")"
    THEN [ok |-> TRUE, val |-> [list |-> L], rest |-> Tail(ts)]
    ELSE LET r == parse_rec(ts, line)
         IN  IF r.ok THEN ParseList(r.rest, Append(L, r.val), line) ELSE r

RECURSIVE ParseTop(_, _, _)
\* the while of lines 63-69
ParseTop(ts, expressions, line) ==
    IF ts = <<>>
    THEN [ok |-> TRUE, expressions |-> expressions, line_number |-> line,
          rest |-> ts]
    ELSE LET r == parse_rec(ts, line)
         IN  IF r.ok
             THEN ParseTop(r.rest, Append(expressions, r.val), line + 1)
             ELSE [ok |-> FALSE, kind |-> r.kind, rest |-> r.rest,
                   msg |-> r.msg \o " in '" \o Join(r.rest) \o "'"]

\* a count of the forms read, from zero
ParseFromZero(ts) == ParseTop(ts, <<>>, 0)

RECURSIVE ParsePrefixTop(_, _, _)
ParsePrefixTop(ts, expressions, line) ==
    IF ts = <<>> \/ ~parse_rec(ts, line).ok
    THEN [ok |-> TRUE, expressions |-> expressions, line_number |-> line,
          rest |-> <<>>]
    ELSE ParsePrefixTop(parse_rec(ts, line).rest,
                        Append(expressions, parse_rec(ts, line).val),
                        line + 1)

\* a parse that returns the forms read before the first error
ParsePrefix(ts) == ParsePrefixTop(ts, <<>>, FirstLine)

parse(ts) == ParseTop(ts, <<>>, FirstLine)

(***************************************************************************)
(* Env                                                                     *)
(***************************************************************************)
None == [none |-> TRUE]

IsStr(x) == "sym" \in DOMAIN x
IsInt(x) == "int" \in DOMAIN x
IsList(x) == "list" \in DOMAIN x
IsPrim(x) == "prim" \in DOMAIN x
IsClosure(x) == "exp" \in DOMAIN x

\* the builtins of standard_env the modelled programs call
Prims == {"+", "begin", "list"}

EmptyVars == [v \in {} |-> None]

standard_env == [vars |-> [p \in Prims |-> [prim |-> p]], outer |-> 0]

\* an Env is a dict: it is falsy when it holds no binding
Falsy(h, e) == DOMAIN h[e].vars = {}

RECURSIVE find(_, _, _)
\* Env.find: the index of the environment found, 0 for None
find(h, e, var) ==
    IF var \in DOMAIN h[e].vars THEN e
    ELSE IF h[e].outer # 0 /\ ~Falsy(h, h[e].outer)
    THEN find(h, h[e].outer, var)
    ELSE 0

RECURSIVE Zip(_, _, _)
\* dict.update(zip(params, args)): stops at the shorter of the two
Zip(params, args, m) ==
    IF params = <<>> \/ args = <<>> THEN m
    ELSE Zip(Tail(params), Tail(args), (Head(params).sym :> Head(args)) @@ m)

\* a call that binds its arguments in the captured environment and
\* allocates nothing
NewEnvInPlace(h, params, args, outer) ==
    [h EXCEPT ![outer].vars = Zip(params, args, @)]

\* Env(params, args, outer), allocated at the end of the heap
NewEnv(h, params, args, outer) ==
    Append(h, [vars |-> Zip(params, args, EmptyVars), outer |-> outer])

\* env[var] = val
SetItem(h, e, var, val) ==
    [h EXCEPT ![e].vars = (var :> val) @@ @]

\* a define that writes into the root environment
DefineInRoot(h, e, var, val) == SetItem(h, 1, var, val)

\* line 140: the assignment of define
DefineIn(h, e, var, val) == SetItem(h, e, var, val)

(***************************************************************************)
(* evaluate                                                                *)
(***************************************************************************)
Ok(v, h, lg) == [ok |-> TRUE, val |-> v, H |-> h, log |-> lg]

Raise(exc, msg, h, lg) ==
    [ok |-> FALSE, exc |-> exc, msg |-> msg, H |-> h, log |-> lg]

\* type(v).__name__
TypeName(v) ==
    IF IsInt(v) THEN "int"
    ELSE IF IsStr(v) THEN "str"
    ELSE IF IsList(v) THEN "list"
    ELSE IF v = None THEN "NoneType"
    ELSE "function"

\* bool(v), as the test of `if` takes it
Truthy(v) ==
    IF IsInt(v) THEN v.int # 0
    ELSE IF IsStr(v) THEN v.sym # ""
    ELSE IF IsList(v) THEN v.list # <<>>
    ELSE v # None

\* the ValueError of a tuple assignment of `got` values to `want` names
Unpack(want, got) ==
    IF got < want
    THEN "not enough values to unpack (expected " \o ToString(want)
             \o ", got " \o ToString(got) \o ")"
    ELSE "too many values to unpack (expected " \o ToString(want) \o ")"

\* operator.add(a, b)
Add(a, b, h, lg) ==
    IF IsInt(a) /\ IsInt(b) THEN Ok([int |-> a.int + b.int], h, lg)
    ELSE IF IsStr(a) /\ IsStr(b) THEN Ok([sym |-> a.sym \o b.sym], h, lg)
    ELSE IF IsList(a) /\ IsList(b) THEN Ok([list |-> a.list \o b.list], h, lg)
    ELSE IF IsStr(a) \/ IsList(a)
    THEN Raise("TypeError",
               "can only concatenate " \o TypeName(a) \o " (not \""
                   \o TypeName(b) \o "\") to " \o TypeName(a), h, lg)
    ELSE Raise("TypeError",
               "unsupported operand type(s) for +: '" \o TypeName(a)
                   \o "' and '" \o TypeName(b) \o "'", h, lg)

RECURSIVE Reduce(_, _, _, _)
\* reduce(op.add, vals) with acc the value folded so far
Reduce(acc, vals, h, lg) ==
    IF vals = <<>> THEN Ok(acc, h, lg)
    ELSE LET r == Add(acc, Head(vals), h, lg)
         IN  IF r.ok THEN Reduce(r.val, Tail(vals), h, lg) ELSE r

\* the builtins of lines 91, 98 and 106
ApplyPrim(p, vals, h, lg) ==
    IF p = "+"
    THEN IF vals = <<>>
         THEN Raise("TypeError",
                    "reduce() of empty iterable with no initial value", h, lg)
         ELSE Reduce(Head(vals), Tail(vals), h, lg)
    ELSE IF p = "begin"
    THEN IF vals = <<>>
         THEN Raise("IndexError", "tuple index out of range", h, lg)
         ELSE Ok(vals[Len(vals)], h, lg)
    ELSE Ok([list |-> vals], h, lg)

\* a parameter list the model binds: a list of symbols
SymList(x) == IsList(x) /\ \A i \in 1..Len(x.list) : IsStr(x.list[i])

RECURSIVE evaluate(_, _, _, _), EvalArgs(_, _, _, _, _), Apply(_, _, _, _)
\* evaluate(x, env) on heap h; lg records the environment operations made
evaluate(x, env, h, lg) ==
    IF IsStr(x)
    THEN LET e == find(h, env, x.sym)
         IN  IF e = 0
             THEN Raise("NameError",
                        "Variable '" \o x.sym \o "' is not defined.", h, lg)
             ELSE Ok(h[e].vars[x.sym], h, lg)
    ELSE IF ~IsList(x) THEN Ok(x, h, lg)
    ELSE IF x.list = <<>>
    THEN Raise("ValueError",
               "not enough values to unpack (expected at least 1, got 0)",
               h, lg)
    ELSE LET op == Head(x.list)
             args == Tail(x.list)
         IN
         IF op = [sym |-> "quote"]
         THEN IF args = <<>>
              THEN Raise("IndexError", "list index out of range", h, lg)
              ELSE Ok(args[1], h, lg)
         ELSE IF op = [sym |-> "if"]
         THEN IF Len(args) # 3
              THEN Raise("ValueError", Unpack(3, Len(args)), h, lg)
              ELSE LET t == evaluate(args[1], env, h, lg)
                   IN  IF ~t.ok THEN t
                       ELSE evaluate(IF Truthy(t.val) THEN args[2] ELSE args[3],
                                     env, t.H, t.log)
         ELSE IF op = [sym |-> "define"]
         THEN IF Len(args) # 2
              THEN Raise("ValueError", Unpack(2, Len(args)), h, lg)
              ELSE LET r == evaluate(args[2], env, h, lg)
                   IN  IF ~r.ok THEN r
                       ELSE IF IsList(args[1])
                       THEN Raise("TypeError", "unhashable type: 'list'",
                                  r.H, r.log)
                       ELSE IF ~IsStr(args[1])
                       THEN Raise("Unmodelled", "", r.H, r.log)
                       ELSE LET h2 == DefineIn(r.H, env, args[1].sym, r.val)
                            IN  Ok(None, h2,
                                   Append(r.log,
                                          [op |-> "define", env |-> env,
                                           var |-> args[1].sym,
                                           before |-> r.H, after |-> h2]))
         ELSE IF op = [sym |-> "set!"]
         THEN IF Len(args) # 2
              THEN Raise("ValueError", Unpack(2, Len(args)), h, lg)
              ELSE IF IsList(args[1])
              THEN Raise("TypeError", "unhashable type: 'list'", h, lg)
              ELSE IF ~IsStr(args[1])
              THEN Raise("Unmodelled", "", h, lg)
              ELSE IF find(h, env, args[1].sym) = 0
              THEN Raise("NameError",
                         "Variable '" \o args[1].sym \o "' is not defined.",
                         h,
                         Append(lg, [op |-> "unbound", env |-> env,
                                     var |-> args[1].sym, before |-> h]))
              ELSE LET r == evaluate(args[2], env, h, lg)
                   IN  IF ~r.ok THEN r
                       ELSE LET e == find(r.H, env, args[1].sym)
                                h2 == SetItem(r.H, e, args[1].sym, r.val)
                            IN  Ok(None, h2,
                                   Append(r.log,
                                          [op |-> "set", env |-> env,
                                           var |-> args[1].sym, target |-> e,
                                           before |-> r.H, after |-> h2]))
         ELSE IF op = [sym |-> "lambda"]
         THEN IF Len(args) # 2
              THEN Raise("ValueError", Unpack(2, Len(args)), h, lg)
              ELSE Ok([vars |-> args[1], exp |-> args[2], env |-> env], h, lg)
         ELSE LET p == evaluate(op, env, h, lg)
              IN  IF ~p.ok THEN p
                  ELSE LET a == EvalArgs(args, env, p.H, p.log, <<>>)
                       IN  IF ~a.ok THEN a
                           ELSE Apply(p.val, a.val, a.H, a.log)

\* [evaluate(arg, env) for arg in args], left to right
EvalArgs(args, env, h, lg, vals) ==
    IF args = <<>> THEN Ok(vals, h, lg)
    ELSE LET r == evaluate(Head(args), env, h, lg)
         IN  IF ~r.ok THEN r
             ELSE EvalArgs(Tail(args), env, r.H, r.log, Append(vals, r.val))

\* proc(*vals)
Apply(proc, vals, h, lg) ==
    IF IsPrim(proc) THEN ApplyPrim(proc.prim, vals, h, lg)
    ELSE IF IsClosure(proc)
    THEN IF ~SymList(proc.vars) THEN Raise("Unmodelled", "", h, lg)
         ELSE LET h2 == NewEnv(h, proc.vars.list, vals, proc.env)
              IN  evaluate(proc.exp, Len(h2), h2,
                           Append(lg, [op |-> "call", closure |-> proc.env,
                                       env |-> Len(h2),
                                       expected |-> Len(proc.vars.list),
                                       got |-> Len(vals)]))
    ELSE Raise("TypeError",
               "'" \o TypeName(proc) \o "' object is not callable", h, lg)

RECURSIVE lisp_str(_), StrAll(_)
\* lisp_str(exp); the address in the repr of a function is left out
lisp_str(v) ==
    IF IsList(v) THEN "(" \o Join(StrAll(v.list)) \o ")"
    ELSE IF IsInt(v) THEN ToString(v.int)
    ELSE IF IsStr(v) THEN v.sym
    ELSE IF v = None THEN "None"
    ELSE IF IsPrim(v) THEN "<function standard_env.<locals>.<lambda>>"
    ELSE "<function evaluate.<locals>.<lambda>>"

StrAll(vs) ==
    IF vs = <<>> THEN <<>> ELSE <<lisp_str(Head(vs))>> \o StrAll(Tail(vs))

(***************************************************************************)
(* Inputs: the texts of the tokenizer, the token lists of the parser and   *)
(* the programs given to run_code                                          *)
(***************************************************************************)
Alphabet == {" ", "\n", "\r", "(", ")", ";", "a"}

TokenAlphabet == {"(", ")", "a", "7"}

\* (define x 1)
\* x
DefineX ==
    <<"(", "d", "e", "f", "i", "n", "e", " ", "x", " ", "1", ")", "\n",
      "x">>

\* (set! x (+ x 1))
\* x
BumpX ==
    <<"(", "s", "e", "t", "!", " ", "x", " ", "(", "+", " ", "x", " ", "1",
      ")", ")", "\n", "x">>

\* 7 (foo) (define x 5)
FailFast ==
    <<"7", " ", "(", "f", "o", "o", ")", " ", "(", "d", "e", "f", "i", "n",
      "e", " ", "x", " ", "5", ")">>

\* (define mk (lambda () (begin (define n 0) (lambda () (begin (set! n (+ n 1)) n)))))
\* (define c (mk)) (define d (mk))
Counters ==
    <<"(", "d", "e", "f", "i", "n", "e", " ", "m", "k", " ", "(", "l", "a",
      "m", "b", "d", "a", " ", "(", ")", " ", "(", "b", "e", "g", "i", "n",
      " ", "(", "d", "e", "f", "i", "n", "e", " ", "n", " ", "0", ")", " ",
      "(", "l", "a", "m", "b", "d", "a", " ", "(", ")", " ", "(", "b", "e",
      "g", "i", "n", " ", "(", "s", "e", "t", "!", " ", "n", " ", "(", "+",
      " ", "n", " ", "1", ")", ")", " ", "n", ")", ")", ")", ")", ")",
      "\n", "(", "d", "e", "f", "i", "n", "e", " ", "c", " ", "(", "m",
      "k", ")", ")", " ", "(", "d", "e", "f", "i", "n", "e", " ", "d", " ",
      "(", "m", "k", ")", ")">>

\* (c)
CallC ==
    <<"(", "c", ")">>

\* (d)
CallD ==
    <<"(", "d", ")">>

\* (define x 5) (x
Unclosed ==
    <<"(", "d", "e", "f", "i", "n", "e", " ", "x", " ", "5", ")", " ", "(",
      "x">>

\* (define x 5) ) 2
Stray ==
    <<"(", "d", "e", "f", "i", "n", "e", " ", "x", " ", "5", ")", " ", ")",
      " ", "2">>

\* ((lambda (a) a) 1 2)
TooMany ==
    <<"(", "(", "l", "a", "m", "b", "d", "a", " ", "(", "a", ")", " ", "a",
      ")", " ", "1", " ", "2", ")">>

\* ((lambda (a b) a) 1)
TooFew ==
    <<"(", "(", "l", "a", "m", "b", "d", "a", " ", "(", "a", " ", "b", ")",
      " ", "a", ")", " ", "1", ")">>

\* (define g (lambda () x))
\* (define h (lambda () (define x 9)))
Scopes ==
    <<"(", "d", "e", "f", "i", "n", "e", " ", "g", " ", "(", "l", "a", "m",
      "b", "d", "a", " ", "(", ")", " ", "x", ")", ")", "\n", "(", "d",
      "e", "f", "i", "n", "e", " ", "h", " ", "(", "l", "a", "m", "b", "d",
      "a", " ", "(", ")", " ", "(", "d", "e", "f", "i", "n", "e", " ", "x",
      " ", "9", ")", ")", ")">>

\* (h) (g)
CallGH ==
    <<"(", "h", ")", " ", "(", "g", ")">>

\* ((lambda () ((lambda () (set! x 2))))) x
Nested ==
    <<"(", "(", "l", "a", "m", "b", "d", "a", " ", "(", ")", " ", "(", "(",
      "l", "a", "m", "b", "d", "a", " ", "(", ")", " ", "(", "s", "e", "t",
      "!", " ", "x", " ", "2", ")", ")", ")", ")", ")", " ", "x">>

\* ; a list
\* (list 1 (quote a))
Quoted ==
    <<";", " ", "a", " ", "l", "i", "s", "t", "\n", "(", "l", "i", "s",
      "t", " ", "1", " ", "(", "q", "u", "o", "t", "e", " ", "a", ")", ")">>

Programs ==
    {DefineX, BumpX, FailFast, Counters, CallC, CallD, Unclosed, Stray,
     TooMany, TooFew, Scopes, CallGH, Nested, Quoted}

(***************************************************************************)
(* Initial states                                                          *)
(***************************************************************************)
TokIdle == src = <<>> /\ chars = <<>> /\ toks = <<>> /\ tpc = "idle"

ParIdle == ptoks = <<>> /\ pres = None /\ ppc = "idle"

\* the module is loaded: global_env = standard_env() is Env 1
RunInit ==
    /\ code = <<>> /\ tokens = <<>> /\ expr = <<>> /\ idx = 0
    /\ line_number = FirstLine /\ out = <<>>
    /\ H = <<standard_env>> /\ pc = "idle" /\ status = "none"
    /\ runs = 0 /\ H0 = <<standard_env>> /\ evald = <<>> /\ perr = FALSE
    /\ log = <<>> /\ hits = <<0>>

Init == TokIdle /\ ParIdle /\ RunInit

InitTok ==
    /\ src \in SeqsUpTo(Alphabet, MaxLen)
    /\ chars = src /\ toks = <<>> /\ tpc = "loop"
    /\ ParIdle /\ RunInit

InitParse ==
    /\ ptoks \in SeqsUpTo(TokenAlphabet, MaxToks)
    /\ pres = None /\ ppc = "call"
    /\ TokIdle /\ RunInit

(***************************************************************************)
(* tokenize, one iteration of its loop at a time                           *)
(***************************************************************************)
TokApply ==
    LET s == TokStep(chars, toks)
    IN  /\ chars' = s.chars
        /\ toks' = s.toks
        /\ tpc' = IF s.stop THEN "done" ELSE "loop"
        /\ UNCHANGED <<src, parvars, runvars>>

TokComment == tpc = "loop" /\ chars # <<>> /\ chars[1] = ";" /\ TokApply

TokParen == tpc = "loop" /\ chars # <<>> /\ chars[1] \in {"(", ")"} /\ TokApply

TokSpace == tpc = "loop" /\ chars # <<>> /\ IsSpace(chars[1]) /\ TokApply

TokAtom == tpc = "loop" /\ chars # <<>> /\ InAtom(chars[1]) /\ TokApply

TokReturn ==
    /\ tpc = "loop" /\ chars = <<>>
    /\ tpc' = "done"
    /\ UNCHANGED <<src, chars, toks, parvars, runvars>>

NextTok == TokComment \/ TokParen \/ TokSpace \/ TokAtom \/ TokReturn

SpecTok == InitTok /\ [][NextTok]_vars

(***************************************************************************)
(* parse, as one call                                                      *)
(***************************************************************************)
ParseReturns ==
    /\ ppc = "call" /\ parse(ptoks).ok
    /\ pres' = parse(ptoks)
    /\ ppc' = "returned"
    /\ UNCHANGED <<ptoks, tokvars, runvars>>

ParseRaises ==
    /\ ppc = "call" /\ ~parse(ptoks).ok
    /\ pres' = parse(ptoks)
    /\ ppc' = "raised"
    /\ UNCHANGED <<ptoks, tokvars, runvars>>

NextParse == ParseReturns \/ ParseRaises

SpecParse == InitParse /\ [][NextParse]_vars

(***************************************************************************)
(* run_code                                                                *)
(***************************************************************************)
\* a driver that prints every result
PrintedAll(val) == TRUE

\* line 166: val is not None
Printed(val) == val # None

\* e.args of the SyntaxError parse raises at line 68
SyntaxArgs(r) == <<r.msg>>

\* lines 158-160
Start(p) ==
    /\ pc = "idle" /\ runs < MaxRuns
    /\ runs' = runs + 1
    /\ code' = p
    /\ tokens' = tokenize(p)
    /\ line_number' = FirstLine
    /\ expr' = <<>> /\ idx' = 0 /\ out' = <<>> /\ status' = "running"
    /\ H0' = H /\ evald' = <<>> /\ perr' = FALSE /\ log' = <<>>
    /\ pc' = "while"
    /\ UNCHANGED <<H, hits, tokvars, parvars>>

\* line 161, tokens exhausted: run_code returns
Return ==
    /\ pc = "while" /\ tokens = <<>>
    /\ pc' = "idle"
    /\ status' = "returned"
    /\ UNCHANGED <<code, tokens, expr, idx, line_number, out, H, runs, H0,
                   evald, perr, log, hits, tokvars, parvars>>

\* line 163, parse returns
ParseOk ==
    /\ pc = "while" /\ tokens # <<>>
    /\ LET r == parse(tokens)
       IN  /\ r.ok
           /\ expr' = r.expressions
           /\ line_number' = r.line_number
           /\ tokens' = r.rest
    /\ idx' = 1
    /\ pc' = "for"
    /\ UNCHANGED <<code, out, H, status, runs, H0, evald, perr, log, hits,
                   tokvars, parvars>>

\* line 163, parse raises SyntaxError: the handler of lines 168-185
ParseFail ==
    /\ pc = "while" /\ tokens # <<>>
    /\ LET r == parse(tokens)
           args == SyntaxArgs(r)
       IN  /\ ~r.ok
           /\ tokens' = r.rest
           /\ IF Len(args) < 2
              THEN \* line 170: e.args[1] raises IndexError out of run_code
                   /\ status' = "raised"
                   /\ out' = out
              ELSE \* lines 171-185: the diagnostic is printed, break
                   /\ status' = "error"
                   /\ out' = Append(out,
                                [kind |-> "error",
                                 text |-> "SyntaxError at line "
                                          \o ToString(line_number) \o ": "
                                          \o args[1]])
    /\ perr' = TRUE
    /\ pc' = "idle"
    /\ UNCHANGED <<code, expr, idx, line_number, H, runs, H0, evald, log,
                   hits, tokvars, parvars>>

\* the calls of each closure environment, counted from the log
Counted(h, lg) ==
    [e \in 1..Len(h) |->
        (IF e <= Len(hits) THEN hits[e] ELSE 0)
        + Cardinality({i \in DOMAIN lg :
                          lg[i].op = "call" /\ lg[i].closure = e})]

\* lines 164-167, one form evaluated without an exception
EvalOk ==
    /\ pc = "for" /\ idx <= Len(expr)
    /\ LET r == evaluate(expr[idx], 1, H, <<>>)
       IN  /\ r.ok
           /\ H' = r.H
           /\ log' = r.log
           /\ hits' = Counted(r.H, r.log)
           /\ evald' = Append(evald, [i |-> idx, ok |-> TRUE, val |-> r.val,
                                     before |-> H, after |-> r.H])
           /\ out' = IF Printed(r.val)
                     THEN Append(out, [kind |-> "value",
                                       text |-> lisp_str(r.val)])
                     ELSE out
    /\ idx' = idx + 1
    /\ UNCHANGED <<code, tokens, expr, line_number, pc, status, runs, H0,
                   perr, tokvars, parvars>>

\* lines 164-165 and 186-191: evaluate raises, the diagnostic, break
EvalError ==
    /\ pc = "for" /\ idx <= Len(expr)
    /\ LET r == evaluate(expr[idx], 1, H, <<>>)
       IN  /\ ~r.ok
           /\ r.exc # "Unmodelled"
           /\ H' = r.H
           /\ log' = r.log
           /\ hits' = Counted(r.H, r.log)
           /\ evald' = Append(evald, [i |-> idx, ok |-> FALSE, val |-> None,
                                     before |-> H, after |-> r.H])
           /\ out' = Append(out, [kind |-> "error",
                                  text |-> "Error at line "
                                           \o ToString(line_number) \o ": "
                                           \o r.msg])
    /\ status' = "error"
    /\ pc' = "idle"
    /\ UNCHANGED <<code, tokens, expr, idx, line_number, runs, H0, perr,
                   tokvars, parvars>>

\* the for loop is over: line 192
ForEnd ==
    /\ pc = "for" /\ idx > Len(expr)
    /\ line_number' = line_number + 1
    /\ pc' = "while"
    /\ UNCHANGED <<code, tokens, expr, idx, out, H, status, runs, H0, evald,
                   perr, log, hits, tokvars, parvars>>

Next ==
    \/ \E p \in Programs : Start(p)
    \/ Return
    \/ ParseOk
    \/ ParseFail
    \/ EvalOk
    \/ EvalError
    \/ ForEnd

Spec == Init /\ [][Next]_vars

(***************************************************************************)
(* What the claims speak of, stated without the code's operators           *)
(***************************************************************************)
\* the characters of a text that lie in a comment: from a `;` to the next
\* newline, the newline included
InComment(s, i) ==
    \E j \in 1..i : s[j] = ";" /\ \A k \in j..(i - 1) : s[k] # "\n"

AtomChar(c) == c \notin {" ", "\n", "\r", "(", ")", ";"}

TokenStart(s, i) ==
    /\ ~InComment(s, i)
    /\ \/ s[i] \in {"(", ")"}
       \/ AtomChar(s[i]) /\ (i = 1 \/ ~AtomChar(s[i - 1]))

RunEnd(s, i) ==
    CHOOSE e \in i..Len(s) :
        /\ \A k \in i..e : AtomChar(s[k])
        /\ e = Len(s) \/ ~AtomChar(s[e + 1])

TokenText(s, i) ==
    IF s[i] \in {"(", ")"} THEN s[i] ELSE Concat(SubSeq(s, i, RunEnd(s, i)))

RECURSIVE TokensFrom(_, _)
TokensFrom(s, i) ==
    IF i > Len(s) THEN <<>>
    ELSE (IF TokenStart(s, i) THEN <<TokenText(s, i)>> ELSE <<>>)
             \o TokensFrom(s, i + 1)

\* opening minus closing parentheses among the first i tokens
Depth(ts, i) ==
    Cardinality({j \in 1..i : ts[j] = "("})
        - Cardinality({j \in 1..i : ts[j] = ")"})

Balanced(ts) ==
    /\ \A i \in 1..Len(ts) : Depth(ts, i) >= 0
    /\ Depth(ts, Len(ts)) = 0

\* some `)` has no earlier `(` to match
StrayClose(ts) == \E i \in 1..Len(ts) : Depth(ts, i) < 0

\* some `(` has no later `)` to match
UnclosedOpen(ts) ==
    \E i \in 1..Len(ts) :
        /\ ts[i] = "("
        /\ \A j \in i..Len(ts) : Depth(ts, j) - Depth(ts, i - 1) > 0

\* the top-level forms of a balanced token list
TopForms(ts) == Cardinality({i \in 1..Len(ts) : Depth(ts, i - 1) = 0})

RECURSIVE Chain(_, _)
\* an environment and its ancestors
Chain(h, e) ==
    {e} \cup (IF h[e].outer = 0 THEN {} ELSE Chain(h, h[e].outer))

Bound(h, e, var) == \E a \in Chain(h, e) : var \in DOMAIN h[a].vars

\* the nearest environment of the chain that binds var
Nearest(h, e, var) ==
    CHOOSE a \in Chain(h, e) :
        /\ var \in DOMAIN h[a].vars
        /\ \A b \in Chain(h, e) :
              (var \in DOMAIN h[b].vars /\ b # a) => a \notin Chain(h, b) \ {b}

RECURSIVE Emitted(_)
\* the lines a list of evaluated forms must have printed
Emitted(ev) ==
    IF ev = <<>> THEN <<>>
    ELSE (IF ~Head(ev).ok THEN <<[kind |-> "error"]>>
          ELSE IF Head(ev).val # None
          THEN <<[kind |-> "value", text |-> lisp_str(Head(ev).val)]>>
          ELSE <<>>)
             \o Emitted(Tail(ev))

OutLines ==
    [i \in DOMAIN out |->
        IF out[i].kind = "error" THEN [kind |-> "error"] ELSE out[i]]

(***************************************************************************)
(* Claims                                                                  *)
(***************************************************************************)

\* C1: applying a closure to a number of arguments other than its number of
\* parameters fails with an arity error: no call Environment is created and
\* the body is not evaluated.  Every call the log records has created its
\* Environment and evaluated the body, so every recorded call would have as
\* many arguments as parameters.
C1_ArityMismatchRejected ==
    \A i \in DOMAIN log :
        log[i].op = "call" => log[i].expected = log[i].got

\* C2: when parse fails on the program, run_code prints a diagnostic for the
\* parse error and returns normally, without an unhandled exception.
C2_ParseErrorReported ==
    (pc = "idle" /\ perr) =>
        /\ status # "raised"
        /\ \E i \in DOMAIN out : out[i].kind = "error"

\* C3: when evaluating form k of a well-formed program raises, run_code has
\* evaluated forms 1..k in source order, each against the heap the previous
\* one left, has printed the non-None results of forms 1..k-1 in that order
\* followed by exactly one diagnostic, and has stopped: forms k+1.. were not
\* evaluated and the heap is the one form k left.
C3_FailFast ==
    /\ \A i \in DOMAIN evald :
          /\ evald[i].i = i
          /\ evald[i].before = IF i = 1 THEN H0 ELSE evald[i - 1].after
    /\ ~perr => OutLines = Emitted(evald)
    /\ (status = "error" /\ ~perr) =>
          /\ pc = "idle"
          /\ Len(evald) \in 1..Len(expr)
          /\ \A i \in DOMAIN evald : evald[i].ok <=> i < Len(evald)
          /\ Cardinality({i \in DOMAIN out : out[i].kind = "error"}) = 1
          /\ out[Len(out)].kind = "error"
          /\ H = evald[Len(evald)].after

C3_Witness ==
    /\ pc = "idle" /\ status = "error" /\ ~perr
    /\ Len(evald) = 2 /\ Len(expr) = 3 /\ Len(out) = 2
    /\ out[1] = [kind |-> "value", text |-> "7"]
    /\ find(H, 1, "x") = 0

\* C4 as claimed: parse succeeds iff the parentheses are balanced; an
\* unclosed `(` raises the unexpected-EOF error and a `)` with no open `(`
\* raises the unexpected-`)` error.
C4_BalanceAsClaimed ==
    ppc # "call" =>
        /\ pres.ok <=> Balanced(ptoks)
        /\ UnclosedOpen(ptoks) => (~pres.ok /\ pres.kind = "EOF")
        /\ StrayClose(ptoks) => (~pres.ok /\ pres.kind = "CLOSE")

\* C4 amended: parse succeeds iff the parentheses are balanced; a `)` with
\* no open `(` raises the unexpected-`)` error, also when a `(` is left
\* unclosed after it; an unclosed `(` with no unmatched `)` raises the
\* unexpected-EOF error.
C4_Balance ==
    /\ ppc \in {"call", "returned", "raised"}
    /\ ppc = "returned" => pres.ok
    /\ ppc = "raised" => ~pres.ok
    /\ ppc # "call" =>
          /\ pres.ok <=> Balanced(ptoks)
          /\ StrayClose(ptoks) => (~pres.ok /\ pres.kind = "CLOSE")
          /\ (UnclosedOpen(ptoks) /\ ~StrayClose(ptoks)) =>
                (~pres.ok /\ pres.kind = "EOF")

C4_Witness ==
    /\ ppc = "raised"
    /\ StrayClose(ptoks) /\ UnclosedOpen(ptoks)
    /\ pres.kind = "CLOSE"

\* C5: the counters of two calls of the same factory share no state: the
\* variable n in the Environment of each factory call is the number of
\* invocations of the closure that captured that Environment, whatever the
\* order of the invocations, and two counters never capture the same
\* Environment.
C5_ClosureIndependence ==
    /\ Len(hits) = Len(H)
    /\ \A e \in 1..Len(H) :
          "n" \in DOMAIN H[e].vars => H[e].vars["n"] = [int |-> hits[e]]
    /\ ({"c", "d"} \subseteq DOMAIN H[1].vars
          /\ IsClosure(H[1].vars["c"]) /\ IsClosure(H[1].vars["d"])) =>
             /\ H[1].vars["c"].env # H[1].vars["d"].env
             /\ H[1].vars["c"].env # 1

C5_Witness ==
    /\ {"c", "d"} \subseteq DOMAIN H[1].vars
    /\ IsClosure(H[1].vars["c"]) /\ IsClosure(H[1].vars["d"])
    /\ H[H[1].vars["c"].env].vars["n"] = [int |-> 2]
    /\ H[H[1].vars["d"].env].vars["n"] = [int |-> 1]
    /\ log # <<>> /\ log[1].op = "call"
    /\ log[1].closure = H[1].vars["c"].env

\* C6: set! on a symbol bound somewhere in the Environment chain overwrites
\* the binding in the nearest Environment that binds it and changes nothing
\* else; it reports the symbol as unbound only when no Environment of the
\* chain binds it.  A define in an Environment that is not on a closure's
\* chain does not change what the closure's Environment resolves.
C6_SetBangNearest ==
    \A i \in DOMAIN log :
        /\ log[i].op = "unbound" =>
              ~Bound(log[i].before, log[i].env, log[i].var)
        /\ log[i].op = "set" =>
              /\ log[i].target = Nearest(log[i].before, log[i].env, log[i].var)
              /\ \A e \in 1..Len(log[i].before) :
                    e # log[i].target => log[i].after[e] = log[i].before[e]
        /\ log[i].op = "define" =>
              \A e \in 1..Len(log[i].before) :
                  log[i].env \notin Chain(log[i].before, e) =>
                      log[i].after[e] = log[i].before[e]

\* C7: define in Environment E binds the symbol in E itself and changes no
\* other Environment and no other binding of E, also when an ancestor binds
\* the symbol; a lookup of the symbol from E then finds E.
C7_DefineLocal ==
    \A i \in DOMAIN log :
        log[i].op = "define" =>
            LET b == log[i].before
                a == log[i].after
                E == log[i].env
            IN  /\ Len(a) = Len(b)
                /\ \A e \in 1..Len(b) : e # E => a[e] = b[e]
                /\ a[E].outer = b[E].outer
                /\ DOMAIN a[E].vars = DOMAIN b[E].vars \cup {log[i].var}
                /\ \A v \in DOMAIN b[E].vars \ {log[i].var} :
                      a[E].vars[v] = b[E].vars[v]
                /\ find(a, E, log[i].var) = E

C7_Witness ==
    \E i \in DOMAIN log :
        /\ log[i].op = "define"
        /\ log[i].env # 1
        /\ log[i].var \in DOMAIN log[i].before[1].vars
        /\ log[i].after[1].vars[log[i].var] = [int |-> 1]
        /\ log[i].after[log[i].env].vars[log[i].var] = [int |-> 9]

\* C8: tokenize ends on every text, every iteration of its loop consuming
\* input or leaving the loop, and returns in source order the tokens outside
\* comments: each parenthesis alone, each maximal run of atom characters as
\* one token, nothing for a comment or for whitespace.
C8_Tokenize ==
    /\ tpc \in {"idle", "loop", "done"}
    /\ (tpc = "loop" /\ chars # <<>>) =>
          \/ TokStep(chars, toks).stop
          \/ Len(TokStep(chars, toks).chars) < Len(chars)
    /\ tpc = "done" =>
          /\ toks = TokensFrom(src, 1)
          /\ toks = tokenize(src)
          /\ (\A i \in 1..Len(src) : InComment(src, i) \/ IsSpace(src[i]))
                => toks = <<>>

C8_Witness ==
    /\ tpc = "done"
    /\ src = <<"a", ";", "a", "\n">>
    /\ toks = <<"a">>

\* C9 as claimed: the count parse returns with the expressions is the
\* number of top-level forms it read.
C9_CountAsClaimed ==
    ppc = "returned" => pres.line_number = Len(pres.expressions)

\* C9 amended: the count parse returns with the expressions is one more
\* than the number of top-level forms it read.
C9_Count ==
    ppc = "returned" =>
        /\ Len(pres.expressions) = TopForms(ptoks)
        /\ pres.line_number = TopForms(ptoks) + 1

C9_Witness ==
    /\ ppc = "returned"
    /\ Len(pres.expressions) = 2
    /\ pres.line_number = 3

\* C10: when the tokens of the program are not balanced, run_code evaluates
\* no form of it: nothing is printed and the heap stays as the run found it.
C10_ParseBeforeEvaluate ==
    (status # "none" /\ ~Balanced(tokenize(code))) =>
        /\ evald = <<>>
        /\ out = <<>>
        /\ H = H0
        /\ pc = "idle" => perr

C10_Witness ==
    /\ pc = "idle" /\ perr
    /\ code = Unclosed
    /\ tokens = <<>>
    /\ find(H, 1, "x") = 0

====
